---- MODULE Spec2Model ----
(***************************************************************************)
(* Day 12 condition-record solver (src/src/day12.rs): run-length           *)
(* extraction, the pruning predicate, the backtracking enumerator, the     *)
(* unfold transform, record parsing and the aggregate in solve().          *)
(***************************************************************************)
EXTENDS Integers, Sequences, FiniteSets, TLC

VARIABLES
    line,             \* the Line being solved: [states, broken_groups]
    backtrack_stack,  \* SpringStateIterator.backtrack_stack (top = last element)
    emitted,          \* the completions returned by next(), in order
    pc,               \* where the run stands
    lines,            \* Input.lines, the parsed records
    part,             \* which of the two sums of solve() is evaluated
    idx,              \* position of the sum's iterator in Input.lines
    counts,           \* the values the sum's map has produced so far
    total,            \* the running sum
    printed,          \* what println! has written
    acc,              \* the Vec<Line> that collect() is building
    lines_read,       \* how many lines s.lines() has yielded
    malformed_seen,   \* history: a malformed line has been yielded
    arg,              \* argument of a pure function under test
    ret,              \* its results
    iters,            \* enumerators alive side by side, each with its own stack
    taken             \* the records of Input.lines a worker has taken

iterVars == <<line, backtrack_stack, emitted>>
sumVars == <<lines, part, idx, counts, total, printed>>
parseVars == <<acc, lines_read, malformed_seen>>
callVars == <<arg, ret>>
parVars == <<iters, taken>>

vars == <<line, backtrack_stack, emitted, pc, lines, part, idx, counts, total,
          printed, acc, lines_read, malformed_seen, arg, ret, iters, taken>>

-----------------------------------------------------------------------------
(* Bounds of the model *)

MaxLen == 4
MaxGroups == 2
MaxRun == 2

-----------------------------------------------------------------------------
(* Data *)

SpringState == {"Operational", "Broken"}

\* Option<SpringState>: "None" is the Unknown cell
OptionSpringState == SpringState \cup {"None"}

SeqsUpTo(S, n) == UNION {[1..k -> S] : k \in 0..n}

Line == [states : SeqsUpTo(OptionSpringState, MaxLen),
         broken_groups : SeqsUpTo(0..MaxRun, MaxGroups)]

RECURSIVE Sum(_)
Sum(s) == IF s = <<>> THEN 0 ELSE Head(s) + Sum(Tail(s))

-----------------------------------------------------------------------------
(* broken_groups: group_by on "is Broken", keep the counts of the Broken groups *)

RECURSIVE GroupBy(_)
GroupBy(states) ==
    IF states = <<>> THEN <<>>
    ELSE LET key == (Head(states) = "Broken")
             rest == GroupBy(Tail(states))
         IN  IF rest # <<>> /\ rest[1].key = key
             THEN <<[key |-> key, count |-> rest[1].count + 1]>> \o Tail(rest)
             ELSE <<[key |-> key, count |-> 1]>> \o rest

\* the count of every group is kept (should be: of the Broken groups only)
broken_groups_unfiltered(states) ==
    LET all == GroupBy(states)
    IN  [i \in 1..Len(all) |-> all[i].count]

broken_groups(states) ==
    LET kept == SelectSeq(GroupBy(states), LAMBDA g : g.key)
    IN  [i \in 1..Len(kept) |-> kept[i].count]

AbsDiff(x, y) == IF x >= y THEN x - y ELSE y - x

\* the difference is taken one way and clipped at zero (should be: abs_diff)
missing_broken_saturating(a, b) ==
    IF Sum(a) >= Sum(b) THEN Sum(a) - Sum(b) ELSE 0

missing_broken(a, b) == AbsDiff(Sum(a), Sum(b))

-----------------------------------------------------------------------------
(* maybe_backtrack: the stack after offering it the candidate *)

\* a separator is charged for every group still to come (should be: but the last)
MissingOperationalEveryGroup(missing_groups) == missing_groups

\* "Each group needs to be terminated by one operational tile except the last."
MissingOperational(missing_groups) ==
    IF missing_groups # 0 THEN missing_groups - 1 ELSE 0

\* the open last group is kept in the comparison (should be: popped)
ClosedGroupsKeepsOpen(candidate_groups, last_is_operational) == candidate_groups

\* "The last group might not be complete."
ClosedGroups(candidate_groups, last_is_operational) ==
    IF ~last_is_operational /\ candidate_groups # <<>>
    THEN SubSeq(candidate_groups, 1, Len(candidate_groups) - 1)
    ELSE candidate_groups

\* a prefix without a closed group is turned away (should be: compared as empty)
PrefixMatchesNonEmpty(closed_groups, groups) ==
    /\ closed_groups # <<>>
    /\ closed_groups = SubSeq(groups, 1, Len(closed_groups))

\* only the number of closed groups is looked at (should be: their lengths)
PrefixMatchesCountOnly(closed_groups, groups) ==
    Len(closed_groups) <= Len(groups)

\* "Everything we found so far has to match."
PrefixMatches(closed_groups, groups) ==
    closed_groups = SubSeq(groups, 1, Len(closed_groups))

maybe_backtrack(input, groups, stack, backtrack_candidate) ==
    LET candidate_groups == broken_groups(backtrack_candidate)
    IN
    IF Len(backtrack_candidate) = Len(input)
    THEN IF candidate_groups = groups
         THEN Append(stack, backtrack_candidate)
         ELSE stack
    ELSE
    LET last_is_operational ==
            /\ backtrack_candidate # <<>>
            /\ backtrack_candidate[Len(backtrack_candidate)] = "Operational"
    IN
    IF Len(candidate_groups) > Len(groups) THEN stack
    ELSE
    LET remaining_items == Len(input) - Len(backtrack_candidate)
        missing == missing_broken(candidate_groups, groups)
        missing_groups == Len(groups) - Len(candidate_groups)
        missing_operational == MissingOperational(missing_groups)
    IN
    IF missing + missing_operational > remaining_items THEN stack
    ELSE
    IF ~PrefixMatches(ClosedGroups(candidate_groups, last_is_operational), groups)
    THEN stack
    ELSE Append(stack, backtrack_candidate)

\* the test for more groups than the target is left out (should be: made)
TooManyGroupsNeverChecked(candidate_groups, groups) == FALSE

\* "More groups than the target?"
TooManyGroups(candidate_groups, groups) == Len(candidate_groups) > Len(groups)

\* maybe_backtrack panics on the candidate: a usize subtraction that goes below
\* zero (a panic where overflow is checked) or a slice of the target that ends
\* past its length, met in the order the code evaluates them
maybe_backtrack_panics(input, groups, backtrack_candidate) ==
    LET candidate_groups == broken_groups(backtrack_candidate)
        last_is_operational ==
            /\ backtrack_candidate # <<>>
            /\ backtrack_candidate[Len(backtrack_candidate)] = "Operational"
    IN
    IF Len(backtrack_candidate) = Len(input) THEN FALSE
    ELSE IF TooManyGroups(candidate_groups, groups) THEN FALSE
    ELSE IF Len(input) - Len(backtrack_candidate) < 0 THEN TRUE
    ELSE IF Len(groups) - Len(candidate_groups) < 0 THEN TRUE
    ELSE
    LET missing_groups == Len(groups) - Len(candidate_groups)
    IN
    IF missing_groups # 0 /\ missing_groups - 1 < 0 THEN TRUE
    ELSE IF missing_broken(candidate_groups, groups)
              + MissingOperational(missing_groups)
              > Len(input) - Len(backtrack_candidate)
    THEN FALSE
    ELSE Len(ClosedGroups(candidate_groups, last_is_operational)) > Len(groups)

-----------------------------------------------------------------------------
(* SpringStateIterator *)

\* SpringStateIterator::new
NewStack == << <<>> >>

Top(stack) == stack[Len(stack)]
Pop(stack) == SubSeq(stack, 1, Len(stack) - 1)

\* the debug_assert_eq! of Line::solutions on one emitted completion
DebugAssertHolds(st) == broken_groups(st) = line.broken_groups

\* next(): pop() on the empty stack is None, the iterator is finished
Exhausted ==
    /\ pc = "iter"
    /\ backtrack_stack = <<>>
    /\ pc' = "done"
    /\ UNCHANGED <<line, backtrack_stack, emitted>>
    /\ UNCHANGED <<sumVars, parseVars, callVars, parVars>>

\* next(): the popped prefix covers the record and is returned; solutions()
\* inspects it with debug_assert_eq!, which panics in a build with debug
\* assertions and is compiled out otherwise
Emit ==
    /\ pc = "iter"
    /\ backtrack_stack # <<>>
    /\ LET cur == Top(backtrack_stack)
       IN  /\ Len(cur) = Len(line.states)
           /\ backtrack_stack' = Pop(backtrack_stack)
           /\ emitted' = Append(emitted, cur)
           /\ \/ /\ DebugAssertHolds(cur)
                 /\ pc' = pc
              \/ /\ ~DebugAssertHolds(cur)
                 /\ \E debug_assertions \in BOOLEAN :
                        pc' = IF debug_assertions THEN "panic" ELSE pc
    /\ UNCHANGED <<line, sumVars, parseVars, callVars, parVars>>

\* a rejected forced extension leaves the popped prefix on the stack (should
\* be: the prefix is gone)
ExtendForcedRetries ==
    /\ pc = "iter"
    /\ backtrack_stack # <<>>
    /\ LET cur == Top(backtrack_stack)
           pushed == maybe_backtrack(line.states, line.broken_groups,
                                     Pop(backtrack_stack),
                                     Append(cur, line.states[Len(cur) + 1]))
       IN  /\ Len(cur) # Len(line.states)
           /\ line.states[Len(cur) + 1] # "None"
           /\ backtrack_stack' =
                IF pushed = Pop(backtrack_stack) THEN backtrack_stack ELSE pushed
    /\ UNCHANGED <<line, emitted, pc, sumVars, parseVars, callVars, parVars>>

\* a resolved cell is branched on like an Unknown one (should be: forced)
ExtendForcedBothWays ==
    /\ pc = "iter"
    /\ backtrack_stack # <<>>
    /\ LET cur == Top(backtrack_stack)
       IN  /\ Len(cur) # Len(line.states)
           /\ line.states[Len(cur) + 1] # "None"
           /\ backtrack_stack' =
                maybe_backtrack(line.states, line.broken_groups,
                    maybe_backtrack(line.states, line.broken_groups,
                                    Pop(backtrack_stack),
                                    Append(cur, "Operational")),
                    Append(cur, "Broken"))
    /\ UNCHANGED <<line, emitted, pc, sumVars, parseVars, callVars, parVars>>

\* next(): the cell after the popped prefix is Some(s)
ExtendForced ==
    /\ pc = "iter"
    /\ backtrack_stack # <<>>
    /\ LET cur == Top(backtrack_stack)
       IN  /\ Len(cur) # Len(line.states)
           /\ line.states[Len(cur) + 1] # "None"
           /\ backtrack_stack' =
                maybe_backtrack(line.states, line.broken_groups,
                                Pop(backtrack_stack),
                                Append(cur, line.states[Len(cur) + 1]))
    /\ UNCHANGED <<line, emitted, pc, sumVars, parseVars, callVars, parVars>>

\* both extensions at an Unknown cell are pushed without being tested (should
\* be: each goes through maybe_backtrack)
ExtendUnknownUnchecked ==
    /\ pc = "iter"
    /\ backtrack_stack # <<>>
    /\ LET cur == Top(backtrack_stack)
       IN  /\ Len(cur) # Len(line.states)
           /\ line.states[Len(cur) + 1] = "None"
           /\ backtrack_stack' =
                Pop(backtrack_stack)
                    \o <<Append(cur, "Operational"), Append(cur, "Broken")>>
    /\ UNCHANGED <<line, emitted, pc, sumVars, parseVars, callVars, parVars>>

\* Broken is offered first, Operational second (should be: the other way)
ExtendUnknownBrokenFirst ==
    /\ pc = "iter"
    /\ backtrack_stack # <<>>
    /\ LET cur == Top(backtrack_stack)
       IN  /\ Len(cur) # Len(line.states)
           /\ line.states[Len(cur) + 1] = "None"
           /\ backtrack_stack' =
                maybe_backtrack(line.states, line.broken_groups,
                    maybe_backtrack(line.states, line.broken_groups,
                                    Pop(backtrack_stack),
                                    Append(cur, "Broken")),
                    Append(cur, "Operational"))
    /\ UNCHANGED <<line, emitted, pc, sumVars, parseVars, callVars, parVars>>

\* next(): the cell after the popped prefix is None; Operational is offered
\* first, Broken second
ExtendUnknown ==
    /\ pc = "iter"
    /\ backtrack_stack # <<>>
    /\ LET cur == Top(backtrack_stack)
       IN  /\ Len(cur) # Len(line.states)
           /\ line.states[Len(cur) + 1] = "None"
           /\ backtrack_stack' =
                maybe_backtrack(line.states, line.broken_groups,
                    maybe_backtrack(line.states, line.broken_groups,
                                    Pop(backtrack_stack),
                                    Append(cur, "Operational")),
                    Append(cur, "Broken"))
    /\ UNCHANGED <<line, emitted, pc, sumVars, parseVars, callVars, parVars>>

-----------------------------------------------------------------------------
(* Line::unfold *)

UnfoldCopies == 5

Repeat(x, n) == [i \in 1..n |-> x]

\* sep after every element, the last one too (should be: between elements)
RECURSIVE IntersperseTrailing(_, _)
IntersperseTrailing(seq, sep) ==
    IF seq = <<>> THEN <<>>
    ELSE <<Head(seq), sep>> \o IntersperseTrailing(Tail(seq), sep)

\* Itertools::intersperse: sep between every two consecutive elements
RECURSIVE Intersperse(_, _)
Intersperse(seq, sep) ==
    IF Len(seq) <= 1 THEN seq
    ELSE <<Head(seq), sep>> \o Intersperse(Tail(seq), sep)

RECURSIVE Flatten(_)
Flatten(seqs) ==
    IF seqs = <<>> THEN <<>> ELSE Head(seqs) \o Flatten(Tail(seqs))

\* the copies are joined without the None separator
unfold_no_separator(l) ==
    [states |-> Flatten(Repeat(l.states, UnfoldCopies)),
     broken_groups |-> Flatten(Repeat(l.broken_groups, UnfoldCopies))]

\* a record that already holds a separator is returned as it is
unfold_once_only(l) ==
    IF \E i \in 1..Len(l.states) : l.states[i] = "None"
    THEN l
    ELSE [states |-> Flatten(Intersperse(Repeat(l.states, UnfoldCopies),
                                         <<"None">>)),
          broken_groups |-> Flatten(Repeat(l.broken_groups, UnfoldCopies))]

unfold(l) ==
    [states |-> Flatten(Intersperse(Repeat(l.states, UnfoldCopies), <<"None">>)),
     broken_groups |-> Flatten(Repeat(l.broken_groups, UnfoldCopies))]

-----------------------------------------------------------------------------
(* impl FromStr for Line, impl FromStr for Input.  A string is a sequence of
   one-character strings; a text is the sequence of lines that s.lines()
   yields. *)

Ok(v) == [ok |-> TRUE, val |-> v]
Err(e) == [ok |-> FALSE, err |-> e]

\* str::split_once: around the first occurrence of the delimiter
SplitOnce(s, d) ==
    IF \A i \in 1..Len(s) : s[i] # d THEN Err("None")
    ELSE LET at == CHOOSE i \in 1..Len(s) :
                       s[i] = d /\ \A j \in 1..(i - 1) : s[j] # d
         IN  Ok(<<SubSeq(s, 1, at - 1), SubSeq(s, at + 1, Len(s))>>)

\* str::split: one more piece than there are delimiters
RECURSIVE Split(_, _)
Split(s, d) ==
    IF \A i \in 1..Len(s) : s[i] # d THEN <<s>>
    ELSE LET at == CHOOSE i \in 1..Len(s) :
                       s[i] = d /\ \A j \in 1..(i - 1) : s[j] # d
         IN  <<SubSeq(s, 1, at - 1)>> \o Split(SubSeq(s, at + 1, Len(s)), d)

\* the match on one pattern character
ParseState(c) ==
    CASE c = "." -> Ok("Operational")
      [] c = "#" -> Ok("Broken")
      [] c = "?" -> Ok("None")
      [] OTHER -> Err("Invalid state")

Digits == {"0", "1", "2", "3", "4", "5", "6", "7", "8", "9"}

DigitValue(c) ==
    CASE c = "0" -> 0 [] c = "1" -> 1 [] c = "2" -> 2 [] c = "3" -> 3
      [] c = "4" -> 4 [] c = "5" -> 5 [] c = "6" -> 6 [] c = "7" -> 7
      [] c = "8" -> 8 [] c = "9" -> 9

RECURSIVE DecimalValue(_)
DecimalValue(ds) ==
    IF ds = <<>> THEN 0
    ELSE 10 * DecimalValue(SubSeq(ds, 1, Len(ds) - 1)) + DigitValue(ds[Len(ds)])

\* str::parse::<usize>: an optional '+', then one or more decimal digits (the
\* tokens of the model are too short to exceed usize::MAX)
ParseUsize(tok) ==
    LET ds == IF tok # <<>> /\ tok[1] = "+" THEN Tail(tok) ELSE tok
    IN  IF ds = <<>> \/ \E i \in 1..Len(ds) : ds[i] \notin Digits
        THEN Err("Failed to parse integer")
        ELSE Ok(DecimalValue(ds))

\* collect::<Result<Vec<_>>> over parsed items: the first Err, else all values
CollectResults(rs) ==
    IF \E i \in 1..Len(rs) : ~rs[i].ok
    THEN rs[CHOOSE i \in 1..Len(rs) :
                ~rs[i].ok /\ \A j \in 1..(i - 1) : rs[j].ok]
    ELSE Ok([i \in 1..Len(rs) |-> rs[i].val])

\* <Line as FromStr>::from_str
LineFromStr(s) ==
    LET halves == SplitOnce(s, " ")
    IN  IF ~halves.ok THEN Err("Invalid input line")
        ELSE
        LET states_str == halves.val[1]
            groups_str == halves.val[2]
            states == CollectResults(
                          [i \in 1..Len(states_str) |-> ParseState(states_str[i])])
        IN  IF ~states.ok THEN states
            ELSE
            LET tokens == Split(groups_str, ",")
                groups == CollectResults(
                              [i \in 1..Len(tokens) |-> ParseUsize(tokens[i])])
            IN  IF ~groups.ok THEN groups
                ELSE Ok([states |-> states.val, broken_groups |-> groups.val])

\* a line that fails is dropped and the collection goes on (should be: stops)
CollectSkippingErrors(vec, r) ==
    IF r.ok THEN Ok(Append(vec, r.val)) ELSE Ok(vec)

\* one step of the collect() in <Input as FromStr>::from_str: the next parsed
\* line joins the Vec, or its error ends the collection and is the result
Collect(vec, r) ==
    IF r.ok THEN Ok(Append(vec, r.val)) ELSE r

\* <Input as FromStr>::from_str on a whole text
RECURSIVE InputFromStr(_, _)
InputFromStr(text, vec) ==
    IF text = <<>> THEN Ok([lines |-> vec])
    ELSE LET c == Collect(vec, LineFromStr(Head(text)))
         IN  IF c.ok THEN InputFromStr(Tail(text), c.val) ELSE c

-----------------------------------------------------------------------------
(* Line::solutions on any bounded record *)

Init ==
    /\ line \in Line
    /\ backtrack_stack = NewStack
    /\ emitted = <<>>
    /\ pc = "iter"
    /\ lines = <<line>>
    /\ part = 1
    /\ idx = 1
    /\ counts = <<>>
    /\ total = 0
    /\ printed = <<>>
    /\ acc = <<>>
    /\ lines_read = 0
    /\ malformed_seen = FALSE
    /\ arg = <<>>
    /\ ret = <<>>
    /\ iters = <<>>
    /\ taken = {}

Next == Exhausted \/ Emit \/ ExtendForced \/ ExtendUnknown

Spec == Init /\ [][Next]_vars

\* the records whose enumeration is followed to its end have at most
\* MaxLiveLen cells
MaxLiveLen == 3

InitLive == Init /\ Len(line.states) <= MaxLiveLen

\* count() calls next() until it returns None, and every call runs its loop
\* until it returns: a step that can be taken is taken
SpecLive == InitLive /\ [][Next]_vars /\ WF_vars(Next)

-----------------------------------------------------------------------------
(* Line::unfold applied to any bounded record, and to its own result *)

MaxUnfolds == 2

Idle ==
    /\ line = [states |-> <<>>, broken_groups |-> <<>>]
    /\ backtrack_stack = <<>>
    /\ emitted = <<>>
    /\ lines = <<>>
    /\ part = 1
    /\ idx = 1
    /\ counts = <<>>
    /\ total = 0
    /\ printed = <<>>
    /\ acc = <<>>
    /\ lines_read = 0
    /\ malformed_seen = FALSE
    /\ iters = <<>>
    /\ taken = {}

InitUnfold ==
    /\ Idle
    /\ pc = "call"
    /\ arg \in Line
    /\ ret = <<>>

CallUnfold ==
    /\ pc = "call"
    /\ Len(ret) < MaxUnfolds
    /\ ret' = Append(ret, unfold(IF ret = <<>> THEN arg ELSE ret[Len(ret)]))
    /\ UNCHANGED <<arg, pc, iterVars, sumVars, parseVars, parVars>>

NextUnfold == CallUnfold

SpecUnfold == InitUnfold /\ [][NextUnfold]_vars

-----------------------------------------------------------------------------
(* broken_groups applied to any bounded fully-resolved sequence *)

MaxResolved == 6

InitGroups ==
    /\ Idle
    /\ pc = "call"
    /\ arg \in SeqsUpTo(SpringState, MaxResolved)
    /\ ret = <<>>

CallBrokenGroups ==
    /\ pc = "call"
    /\ ret = <<>>
    /\ ret' = <<broken_groups(arg)>>
    /\ UNCHANGED <<arg, pc, iterVars, sumVars, parseVars, parVars>>

NextGroups == CallBrokenGroups

SpecGroups == InitGroups /\ [][NextGroups]_vars

-----------------------------------------------------------------------------
(* Input::from_str as solve() calls it, on any bounded text: lines() yields
   the lines one by one and collect() stops at the first error *)

MaxLines == 2
MaxLineLen == 4

Alphabet == {".", "#", "?", " ", ",", "1", "+", "x"}

TextLine == SeqsUpTo(Alphabet, MaxLineLen)

HasSpace(s) == \E i \in 1..Len(s) : s[i] = " "

FirstSpace(s) == CHOOSE i \in 1..Len(s) : s[i] = " " /\ \A j \in 1..(i - 1) : s[j] # " "

\* the text of a base-10 unsigned integer, as usize's parser reads one
IsUnsignedDecimal(t) ==
    /\ t # <<>>
    /\ LET first == IF t[1] = "+" THEN 2 ELSE 1
       IN  /\ first <= Len(t)
           /\ \A i \in first..Len(t) : t[i] \in Digits

\* no separating space, a pattern character outside . # ?, or a run-length
\* token (a maximal comma-free stretch after the first space) that is not an
\* unsigned integer
Malformed(s) ==
    \/ ~HasSpace(s)
    \/ \E i \in 1..(FirstSpace(s) - 1) : s[i] \notin {".", "#", "?"}
    \/ LET p == FirstSpace(s)
           starts == {p + 1} \cup {i + 1 : i \in {j \in (p + 1)..Len(s) : s[j] = ","}}
           TokenEnd(a) ==
               IF \E j \in a..Len(s) : s[j] = ","
               THEN (CHOOSE j \in a..Len(s) :
                        s[j] = "," /\ \A k \in a..(j - 1) : s[k] # ",") - 1
               ELSE Len(s)
       IN  \E a \in starts : ~IsUnsignedDecimal(SubSeq(s, a, TokenEnd(a)))

\* what from_str makes of each line the text may hold, with whether the line
\* is malformed
LineOutcomes == {<<LineFromStr(s), Malformed(s)>> : s \in TextLine}

InitParse ==
    /\ Idle
    /\ pc = "parse"
    /\ arg = <<>>
    /\ ret = <<>>

\* lines() yields one more line; Line::from_str parses it and collect() takes
\* the result; on an error from_str returns it and solve() returns it with ?
ParseLine ==
    /\ pc = "parse"
    /\ lines_read < MaxLines
    /\ \E o \in LineOutcomes :
          LET c == Collect(acc, o[1])
          IN  /\ lines_read' = lines_read + 1
              /\ malformed_seen' = (malformed_seen \/ o[2])
              /\ IF c.ok
                 THEN acc' = c.val /\ pc' = "parse" /\ ret' = ret
                 ELSE acc' = <<>> /\ pc' = "failed" /\ ret' = <<c>>
    /\ UNCHANGED <<arg, iterVars, sumVars, parVars>>

\* lines() is exhausted: from_str returns Ok(Input) and solve() goes on to
\* its first println!
EndOfText ==
    /\ pc = "parse"
    /\ lines' = acc
    /\ pc' = "sum"
    /\ UNCHANGED <<part, idx, counts, total, printed, iterVars, parseVars, callVars,
                   parVars>>

NextParse == ParseLine \/ EndOfText

SpecParse == InitParse /\ [][NextParse]_vars

-----------------------------------------------------------------------------
(* The sums of solve() on the documented records: the first sum (no unfold)
   on the six example records and on ".# 1", the second sum (unfold) on
   ".# 1" *)

SixText ==
    <<
        <<"?", "?", "?", ".", "#", "#", "#", " ", "1", ",", "1", ",", "3">>,
        <<".", "?", "?", ".", ".", "?", "?", ".", ".", ".", "?", "#", "#", ".", " ", "1", ",", "1", ",", "3">>,
        <<"?", "#", "?", "#", "?", "#", "?", "#", "?", "#", "?", "#", "?", "#", "?", " ", "1", ",", "3", ",", "1", ",", "6">>,
        <<"?", "?", "?", "?", ".", "#", ".", ".", ".", "#", ".", ".", ".", " ", "4", ",", "1", ",", "1">>,
        <<"?", "?", "?", "?", ".", "#", "#", "#", "#", "#", "#", ".", ".", "#", "#", "#", "#", "#", ".", " ", "1", ",", "6", ",", "5">>,
        <<"?", "#", "#", "#", "?", "?", "?", "?", "?", "?", "?", "?", " ", "3", ",", "2", ",", "1">> >>

DotHashText == << <<".", "#", " ", "1">> >>

ScenarioRuns ==
    {[text |-> SixText, part |-> 1],
     [text |-> DotHashText, part |-> 1],
     [text |-> DotHashText, part |-> 2]}

InitScenario ==
    /\ \E run \in ScenarioRuns :
          /\ lines = InputFromStr(run.text, <<>>).val.lines
          /\ part = run.part
    /\ idx = 1
    /\ counts = <<>>
    /\ total = 0
    /\ printed = <<>>
    /\ pc = "sum"
    /\ line = [states |-> <<>>, broken_groups |-> <<>>]
    /\ backtrack_stack = <<>>
    /\ emitted = <<>>
    /\ acc = <<>>
    /\ lines_read = 0
    /\ malformed_seen = FALSE
    /\ arg = <<>>
    /\ ret = <<>>
    /\ iters = <<>>
    /\ taken = {}

\* the second sum unfolds the record where it lies in the input (should be:
\* unfold builds a new record and the input keeps the source)
StartLineUnfoldInPlace ==
    /\ pc = "sum"
    /\ idx <= Len(lines)
    /\ lines' = IF part = 1 THEN lines
                ELSE [lines EXCEPT ![idx] = unfold(lines[idx])]
    /\ line' = lines'[idx]
    /\ backtrack_stack' = NewStack
    /\ emitted' = <<>>
    /\ pc' = "iter"
    /\ UNCHANGED <<part, idx, counts, total, printed, parseVars, callVars, parVars>>

\* the map closure is entered for the next record: l.solutions() in the first
\* sum, l.unfold().solutions() in the second; solutions() builds the iterator
StartLine ==
    /\ pc = "sum"
    /\ idx <= Len(lines)
    /\ line' = IF part = 1 THEN lines[idx] ELSE unfold(lines[idx])
    /\ backtrack_stack' = NewStack
    /\ emitted' = <<>>
    /\ pc' = "iter"
    /\ UNCHANGED <<sumVars, parseVars, callVars, parVars>>

\* count() has consumed the iterator; its value is added to the sum
FinishLine ==
    /\ pc = "done"
    /\ counts' = Append(counts, Len(emitted))
    /\ total' = total + Len(emitted)
    /\ idx' = idx + 1
    /\ pc' = "sum"
    /\ UNCHANGED <<lines, part, printed, iterVars, parseVars, callVars, parVars>>

\* every record is summed: println! writes the sum
PrintSum ==
    /\ pc = "sum"
    /\ idx > Len(lines)
    /\ printed' = Append(printed, total)
    /\ pc' = "end"
    /\ UNCHANGED <<lines, part, idx, counts, total, iterVars, parseVars, callVars,
                   parVars>>

NextScenario ==
    \/ StartLine
    \/ Exhausted
    \/ Emit
    \/ ExtendForced
    \/ ExtendUnknown
    \/ FinishLine
    \/ PrintSum

SpecScenario == InitScenario /\ [][NextScenario]_vars

-----------------------------------------------------------------------------
(* Two SpringStateIterators over one record.  An iterator is a value: the
   borrowed record, its own backtrack_stack, what it has returned so far and
   where its consumer stands; debug tells whether the build keeps
   debug_assert_eq!. *)

NewIter(l, debug_assertions) ==
    [line |-> l, backtrack_stack |-> NewStack, emitted |-> <<>>,
     pc |-> "iter", debug |-> debug_assertions]

\* one pass of the loop of next() on the iterator it
IterStep(it) ==
    IF it.pc # "iter" THEN it
    ELSE IF it.backtrack_stack = <<>> THEN [it EXCEPT !.pc = "done"]
    ELSE LET cur == Top(it.backtrack_stack)
             rest == Pop(it.backtrack_stack)
             input == it.line.states
             groups == it.line.broken_groups
         IN  IF Len(cur) = Len(input)
             THEN [it EXCEPT !.backtrack_stack = rest,
                             !.emitted = Append(@, cur),
                             !.pc = IF it.debug /\ broken_groups(cur) # groups
                                    THEN "panic" ELSE "iter"]
             ELSE IF input[Len(cur) + 1] # "None"
             THEN [it EXCEPT !.backtrack_stack =
                      maybe_backtrack(input, groups, rest,
                                      Append(cur, input[Len(cur) + 1]))]
             ELSE [it EXCEPT !.backtrack_stack =
                      maybe_backtrack(input, groups,
                          maybe_backtrack(input, groups, rest,
                                          Append(cur, "Operational")),
                          Append(cur, "Broken"))]

\* one call of next() on the iterator it: the loop runs until it returns
RECURSIVE NextCall(_)
NextCall(it) ==
    LET n == IterStep(it)
    IN  IF n.pc # "iter" \/ Len(n.emitted) > Len(it.emitted)
        THEN n
        ELSE NextCall(n)

Twins == {1, 2}

InitTwin ==
    /\ line \in Line
    /\ \E debug_assertions \in BOOLEAN :
          iters = [w \in Twins |-> NewIter(line, debug_assertions)]
    /\ taken = {}
    /\ backtrack_stack = <<>>
    /\ emitted = <<>>
    /\ pc = "twin"
    /\ lines = <<line>>
    /\ part = 1
    /\ idx = 1
    /\ counts = <<>>
    /\ total = 0
    /\ printed = <<>>
    /\ acc = <<>>
    /\ lines_read = 0
    /\ malformed_seen = FALSE
    /\ arg = <<>>
    /\ ret = <<>>

\* the step of one iterator also overwrites the other's stack (should be:
\* each iterator owns its stack)
TwinStepSharedStack(w) ==
    /\ pc = "twin"
    /\ iters[w].pc = "iter"
    /\ iters' = [v \in Twins |->
                    IF v = w THEN IterStep(iters[w])
                    ELSE [iters[v] EXCEPT !.backtrack_stack =
                              IterStep(iters[w]).backtrack_stack]]
    /\ UNCHANGED <<taken, iterVars, pc, sumVars, parseVars, callVars>>

\* one of the two iterators runs one pass of its loop
TwinStep(w) ==
    /\ pc = "twin"
    /\ iters[w].pc = "iter"
    /\ iters' = [iters EXCEPT ![w] = IterStep(iters[w])]
    /\ UNCHANGED <<taken, iterVars, pc, sumVars, parseVars, callVars>>

NextTwin == \E w \in Twins : TwinStep(w)

SpecTwin == InitTwin /\ [][NextTwin]_vars

-----------------------------------------------------------------------------
(* The second sum of solve(): par_iter().map(|l| l.unfold().solutions()).sum().
   Every record is mapped once by whichever worker takes it; a worker adds
   the counts of the records it maps into its own partial sum, and the
   partial sums are added up when every record is mapped. *)

MaxWorkers == 2
MaxParRecords == 2

Workers == 1..MaxWorkers

\* records whose unfolded forms have 0, 1, 1 and 16 completions
ParRecords ==
    {[states |-> <<"Broken">>, broken_groups |-> <<2>>],
     [states |-> <<"Broken">>, broken_groups |-> <<1>>],
     [states |-> <<"None">>, broken_groups |-> <<1>>],
     [states |-> <<"None", "Operational">>, broken_groups |-> <<1>>]}

\* a worker: the index of the record it is mapping (0: none), the iterator
\* of that record's unfolded form, its partial sum, the records it has mapped
IdleWorker(debug_assertions) ==
    [rec |-> 0, it |-> <<>>, sum |-> 0, mapped |-> <<>>,
     debug |-> debug_assertions]

InitPar ==
    /\ lines \in UNION {[1..n -> ParRecords] : n \in 1..MaxParRecords}
    /\ \E debug_assertions \in BOOLEAN :
          iters = [w \in Workers |-> IdleWorker(debug_assertions)]
    /\ taken = {}
    /\ pc = "par"
    /\ part = 2
    /\ total = 0
    /\ printed = <<>>
    /\ idx = 1
    /\ counts = <<>>
    /\ line = [states |-> <<>>, broken_groups |-> <<>>]
    /\ backtrack_stack = <<>>
    /\ emitted = <<>>
    /\ acc = <<>>
    /\ lines_read = 0
    /\ malformed_seen = FALSE
    /\ arg = <<>>
    /\ ret = <<>>

\* a worker takes a record that another worker is not done with, whether or
\* not it was taken already (should be: only a record nobody has taken)
TakeUnfinished(w) ==
    /\ pc = "par"
    /\ iters[w].rec = 0
    /\ \E i \in 1..Len(lines) :
          /\ \A v \in Workers : \A k \in 1..Len(iters[v].mapped) :
                 iters[v].mapped[k] # i
          /\ iters' = [iters EXCEPT ![w].rec = i,
                                    ![w].it = NewIter(unfold(lines[i]),
                                                      iters[w].debug)]
          /\ taken' = taken \cup {i}
    /\ UNCHANGED <<iterVars, pc, sumVars, parseVars, callVars>>

\* an idle worker takes a record nobody has taken: the map closure unfolds
\* it and solutions() builds the iterator of the unfolded record
Take(w) ==
    /\ pc = "par"
    /\ iters[w].rec = 0
    /\ \E i \in (1..Len(lines)) \ taken :
          /\ iters' = [iters EXCEPT ![w].rec = i,
                                    ![w].it = NewIter(unfold(lines[i]),
                                                      iters[w].debug)]
          /\ taken' = taken \cup {i}
    /\ UNCHANGED <<iterVars, pc, sumVars, parseVars, callVars>>

\* count() on a worker's iterator calls next() once more
WorkerStep(w) ==
    /\ pc = "par"
    /\ iters[w].rec # 0
    /\ iters[w].it.pc = "iter"
    /\ iters' = [iters EXCEPT ![w].it = NextCall(@)]
    /\ UNCHANGED <<taken, iterVars, pc, sumVars, parseVars, callVars>>

\* count() has consumed the worker's iterator: the count goes into the
\* worker's partial sum and the worker is free again
WorkerFinish(w) ==
    /\ pc = "par"
    /\ iters[w].rec # 0
    /\ iters[w].it.pc = "done"
    /\ iters' = [iters EXCEPT ![w].sum = @ + Len(iters[w].it.emitted),
                              ![w].mapped = Append(@, iters[w].rec),
                              ![w].rec = 0,
                              ![w].it = <<>>]
    /\ UNCHANGED <<taken, iterVars, pc, sumVars, parseVars, callVars>>

RECURSIVE SumOver(_, _)
SumOver(f, S) ==
    IF S = {} THEN 0
    ELSE LET x == CHOOSE y \in S : TRUE IN f[x] + SumOver(f, S \ {x})

\* every record is mapped and every worker is free: sum() adds the partial
\* sums and println! writes the result
Reduce ==
    /\ pc = "par"
    /\ taken = 1..Len(lines)
    /\ \A w \in Workers : iters[w].rec = 0
    /\ total' = SumOver([w \in Workers |-> iters[w].sum], Workers)
    /\ printed' = Append(printed, total')
    /\ pc' = "end"
    /\ UNCHANGED <<lines, part, idx, counts, iterVars, parseVars, callVars, parVars>>

NextPar ==
    \/ \E w \in Workers : Take(w)
    \/ \E w \in Workers : WorkerStep(w)
    \/ \E w \in Workers : WorkerFinish(w)
    \/ Reduce

SpecPar == InitPar /\ [][NextPar]_vars

-----------------------------------------------------------------------------
(* Day 10 (src/src/day10.rs): Input::get on a parsed grid.  from_str stores
   the rows one after the other in data, all of the same width columns. *)

MaxGridRows == 2
MaxGridCols == 2

Tile == {".", "|"}

Grid ==
    UNION {[data : [1..(r * c) -> Tile], columns : {c}] :
           r \in 1..MaxGridRows, c \in 0..MaxGridCols}

\* data.get(i).copied().unwrap_or('.') with a 0-based index
GetOr(data, i) == IF i < Len(data) THEN data[i + 1] ELSE "."

Get(input, col, row) ==
    IF col < 0 \/ row < 0
    THEN "."
    ELSE GetOr(input.data, col + row * input.columns)

InitGet ==
    /\ Idle
    /\ pc = "call"
    /\ arg \in [input : Grid,
                col : (-1)..(MaxGridCols + 1),
                row : (-1)..(MaxGridRows + 1)]
    /\ ret = <<>>

CallGet ==
    /\ pc = "call"
    /\ ret = <<>>
    /\ ret' = <<Get(arg.input, arg.col, arg.row)>>
    /\ UNCHANGED <<arg, pc, iterVars, sumVars, parseVars, parVars>>

NextGet == CallGet

SpecGet == InitGet /\ [][NextGet]_vars

-----------------------------------------------------------------------------
(* Day 8 (src/src/day8.rs): Input::solve_one and Input::solve_part2 on a
   node map and a direction list.  A label is its three characters. *)

MaxDirections == 2

Direction == {"Left", "Right"}

is_start_node(label) == label[3] = "A"
is_end_node(label) == label[3] = "Z"

\* the keys of the node maps
NodeLabels ==
    {<<"1", "1", "A">>, <<"2", "2", "A">>, <<"1", "1", "Z">>, <<"2", "2", "Z">>}

\* the labels an entry leads to: as in the examples, one start node is entered
\* by no edge
TargetLabels == NodeLabels \ {<<"2", "2", "A">>}

Day8Input ==
    [directions : SeqsUpTo(Direction, MaxDirections),
     map : [NodeLabels -> TargetLabels \X TargetLabels]]

\* the two ways solve_one does not return a Result: the unreachable!() after
\* the loop, and a loop that never ends
Panics == [ok |-> FALSE, err |-> "unreachable"]
Diverges == [ok |-> FALSE, err |-> "never returns"]

next_label(input, current, direction) ==
    IF current \notin DOMAIN input.map
    THEN Err("Invalid label")
    ELSE Ok(IF direction = "Left" THEN input.map[current][1]
            ELSE input.map[current][2])

\* the loop of solve_one from the pair (location, steps) on.  With no
\* direction cycle() yields nothing and unreachable!() is reached; a walk that
\* has made as many steps as there are pairs of a node and a place in the
\* direction list without meeting an end node repeats itself for ever
RECURSIVE solve_one_from(_, _, _)
solve_one_from(input, location, steps) ==
    IF input.directions = <<>> THEN Panics
    ELSE IF is_end_node(location) THEN Ok(steps)
    ELSE IF steps >= Cardinality(DOMAIN input.map) * Len(input.directions)
    THEN Diverges
    ELSE LET n == next_label(input, location,
                             input.directions[(steps % Len(input.directions)) + 1])
         IN  IF ~n.ok THEN n
             ELSE solve_one_from(input, n.val, steps + 1)

solve_one(input, start) == solve_one_from(input, start, 0)

RECURSIVE Gcd(_, _)
Gcd(a, b) == IF b = 0 THEN a ELSE Gcd(b, a % b)

\* the step counts are multiplied (should be: their least common multiple)
LcmAsProduct(a, b) == a * b

\* num_integer::lcm
Lcm(a, b) == IF a = 0 /\ b = 0 THEN 0 ELSE (a * b) \div Gcd(a, b)

\* fold(1, lcm) over the solutions of the start locations in S, one step
\* count for each location
RECURSIVE FoldLcm(_, _, _)
FoldLcm(init, solutions, S) ==
    IF S = {} THEN init
    ELSE LET l == CHOOSE y \in S : TRUE
         IN  FoldLcm(Lcm(init, solutions[l].val), solutions, S \ {l})

solve_part2(input) ==
    LET start_locations == {l \in DOMAIN input.map : is_start_node(l)}
        solutions == [l \in start_locations |-> solve_one(input, l)]
    IN  IF \E l \in start_locations : solutions[l] = Panics
        THEN Panics
        ELSE IF \E l \in start_locations : solutions[l] = Diverges
        THEN Diverges
        ELSE IF \E l \in start_locations : ~solutions[l].ok
        THEN Err("Invalid label")
        ELSE Ok(FoldLcm(1, solutions, start_locations))

InitDay8 ==
    /\ Idle
    /\ pc = "call"
    /\ arg \in Day8Input
    /\ ret = <<>>

CallSolvePart2 ==
    /\ pc = "call"
    /\ ret = <<>>
    /\ ret' = <<solve_part2(arg)>>
    /\ UNCHANGED <<arg, pc, iterVars, sumVars, parseVars, parVars>>

NextDay8 == CallSolvePart2

SpecDay8 == InitDay8 /\ [][NextDay8]_vars

-----------------------------------------------------------------------------
(* Day 7 (src/src/day7.rs): Hand::kind and Hand::kind_with_jokers on a hand
   whose J cards are Jokers already *)

HandSize == 5

\* Card::Joker and five of the other faces
NormalCard == {"N2", "N3", "N4", "N5", "N6"}
JokerCard == NormalCard \cup {"Joker"}

\* enum Kind, weakest first
Kind ==
    <<"HighCard", "OnePair", "TwoPair", "ThreeOfAKind", "FullHouse",
      "FourOfAKind", "FiveOfAKind">>

Hand == [cards : [1..HandSize -> JokerCard]]

count_card(hand, card) ==
    Cardinality({i \in 1..HandSize : hand.cards[i] = card})

\* sort_by_key(|w| Reverse(*w)): the largest first
RECURSIVE SortedDescending(_)
SortedDescending(ws) ==
    IF ws = <<>> THEN <<>>
    ELSE LET m == CHOOSE i \in 1..Len(ws) : \A j \in 1..Len(ws) : ws[j] <= ws[i]
         IN  <<ws[m]>> \o SortedDescending(
                 [k \in 1..(Len(ws) - 1) |-> IF k < m THEN ws[k] ELSE ws[k + 1]])

\* kind(): sorted_card_counts has one count per card of the hand
kind(hand) ==
    LET sorted_card_counts ==
            SortedDescending([i \in 1..HandSize |->
                                 count_card(hand, hand.cards[i])])
    IN  IF sorted_card_counts[1] = 5 THEN "FiveOfAKind"
        ELSE IF sorted_card_counts[1] = 4 THEN "FourOfAKind"
        ELSE IF sorted_card_counts[1] = 3 /\ sorted_card_counts[4] = 2
        THEN "FullHouse"
        ELSE IF sorted_card_counts[1] = 3 THEN "ThreeOfAKind"
        ELSE IF sorted_card_counts[1] = 2 /\ sorted_card_counts[3] = 2
        THEN "TwoPair"
        ELSE IF sorted_card_counts[1] = 2 THEN "OnePair"
        ELSE "HighCard"

\* the jokers are not added to the largest count (should be: added)
BestCountAlone(jokers, card_counts) == card_counts[1]

\* jokers + card_counts[0]
JokersPlusBest(jokers, card_counts) == jokers + card_counts[1]

\* kind_with_jokers(): a Kind, or "panic" where the code indexes card_counts
\* past its end, reaches unreachable!() or fails a debug assertion in a build
\* that keeps them
kind_with_jokers(hand, debug_assertions) ==
    LET normal_cards == SelectSeq(hand.cards, LAMBDA c : c # "Joker")
        jokers == HandSize - Len(normal_cards)
        card_counts ==
            SortedDescending([i \in 1..Len(normal_cards) |->
                                 count_card(hand, normal_cards[i])])
    IN  IF jokers = 5 THEN "FiveOfAKind"
        ELSE IF Len(card_counts) < 1 THEN "panic"
        ELSE IF JokersPlusBest(jokers, card_counts) = 5 THEN "FiveOfAKind"
        ELSE IF jokers = 4 \/ JokersPlusBest(jokers, card_counts) = 4
        THEN "FourOfAKind"
        ELSE IF debug_assertions /\ ~(jokers < 4) THEN "panic"
        ELSE IF jokers = 3 THEN "panic"
        ELSE IF jokers = 2 /\ debug_assertions /\ ~(card_counts[1] <= 2)
        THEN "panic"
        ELSE IF jokers = 2 /\ card_counts[1] = 2 THEN "FullHouse"
        ELSE IF jokers = 2 /\ card_counts[1] = 1 THEN "ThreeOfAKind"
        ELSE IF jokers = 1 /\ debug_assertions /\ ~(card_counts[1] <= 2)
        THEN "panic"
        ELSE IF jokers = 1
        THEN IF card_counts[1] = 2
             THEN IF Len(card_counts) < 3 THEN "panic"
                  ELSE IF card_counts[3] = 2 THEN "FullHouse"
                  ELSE "ThreeOfAKind"
             ELSE "OnePair"
        ELSE IF debug_assertions /\ jokers # 0 THEN "panic"
        ELSE kind(hand)

InitDay7 ==
    /\ Idle
    /\ pc = "call"
    /\ arg \in [hand : Hand, debug_assertions : BOOLEAN]
    /\ ret = <<>>

CallKindWithJokers ==
    /\ pc = "call"
    /\ ret = <<>>
    /\ ret' = <<kind_with_jokers(arg.hand, arg.debug_assertions)>>
    /\ UNCHANGED <<arg, pc, iterVars, sumVars, parseVars, parVars>>

NextDay7 == CallKindWithJokers

SpecDay7 == InitDay7 /\ [][NextDay7]_vars

-----------------------------------------------------------------------------
(* main.rs: the command-line dispatch *)

\* the solvers main registers, day1::solve .. day11::solve, by their day
NumSolutions == 11

solutions == [i \in 1..NumSolutions |-> i]

\* the day argument, an Option<u8>: <<>> is None, <<d>> is Some(d)
DayArg == {<<>>} \cup {<<d>> : d \in 0..255}

\* u8 subtraction day - 1: with overflow checks it panics below zero,
\* without them it wraps modulo 2^8
sub_u8_wraps(day) == (day - 1 + 256) % 256

\* solutions.get(index) with a zero-based index: <<f>> is Some(f)
solutions_get(index) ==
    IF index + 1 \in DOMAIN solutions THEN <<solutions[index + 1]>> ELSE <<>>

\* the result of one solver: the solver `failing` returns an error
run_solver(f, failing) == IF f = failing THEN "solver error" ELSE "Ok"

\* main: the solvers run, in order, and what main returns; `overflowed`
\* records that day - 1 left the range of u8
main(args_day, overflow_checks, failing) ==
    IF args_day # <<>>
    THEN LET day == args_day[1]
         IN IF day - 1 < 0 /\ overflow_checks
            THEN [ran |-> <<>>, result |-> "panic", overflowed |-> TRUE]
            ELSE LET f == solutions_get(sub_u8_wraps(day))
                 IN IF f # <<>>
                    THEN [ran |-> f, result |-> run_solver(f[1], failing),
                          overflowed |-> day - 1 < 0]
                    ELSE [ran |-> <<>>,
                          result |-> "Invalid day or no solution yet!",
                          overflowed |-> day - 1 < 0]
    ELSE LET stop == IF failing \in DOMAIN solutions
                     THEN failing ELSE Len(solutions)
         IN [ran |-> SubSeq(solutions, 1, stop),
             result |-> IF failing \in DOMAIN solutions
                        THEN "solver error" ELSE "Ok",
             overflowed |-> FALSE]

InitMain ==
    /\ Idle
    /\ pc = "call"
    /\ arg \in [day : DayArg, overflow_checks : BOOLEAN,
                failing : 0..NumSolutions]
    /\ ret = <<>>

CallMain ==
    /\ pc = "call"
    /\ ret = <<>>
    /\ ret' = <<main(arg.day, arg.overflow_checks, arg.failing)>>
    /\ UNCHANGED <<arg, pc, iterVars, sumVars, parseVars, parVars>>

NextMain == CallMain

SpecMain == InitMain /\ [][NextMain]_vars

(* day4.rs: the scratchcard table *)

MaxCards == 2
MaxNumbers == 2

\* the numbers printed on a card
CardNumber == 1..2

Day4Card ==
    [id : 1..MaxCards,
     winning_numbers : SeqsUpTo(CardNumber, MaxNumbers),
     your_numbers : SeqsUpTo(CardNumber, MaxNumbers)]

\* Card::wins: the size of the intersection of the two BTreeSets
wins(card) ==
    Cardinality({card.winning_numbers[i] : i \in DOMAIN card.winning_numbers}
                \cap {card.your_numbers[i] : i \in DOMAIN card.your_numbers})

\* sorted_by_key(|c| c.id): a stable sort by id
RECURSIVE sorted_by_id(_)
sorted_by_id(cards) ==
    IF cards = <<>> THEN <<>>
    ELSE LET rest == sorted_by_id(SubSeq(cards, 1, Len(cards) - 1))
             last == cards[Len(cards)]
             keep == Cardinality({i \in DOMAIN rest : rest[i].id <= last.id})
         IN SubSeq(rest, 1, keep) \o <<last>> \o SubSeq(rest, keep + 1, Len(rest))

\* the slice card_counts[start..end] (zero-based, end exclusive) is in range
SliceInRange(start, end, len) == start <= end /\ end <= len

\* the loop of part2_solve from position pos (zero-based) on
RECURSIVE part2_loop(_, _, _)
part2_loop(card_values, card_counts, pos) ==
    IF pos = Len(card_values) THEN Ok(Sum(card_counts))
    ELSE LET new_cards == card_values[pos + 1]
             new_copies == card_counts[pos + 1]
             start == pos + 1
             end == pos + 1 + new_cards
         IN IF ~SliceInRange(start, end, Len(card_counts))
            THEN Err("range end index out of range for slice")
            ELSE part2_loop(card_values,
                            [i \in DOMAIN card_counts |->
                                IF i - 1 >= start /\ i - 1 < end
                                THEN card_counts[i] + new_copies
                                ELSE card_counts[i]],
                            pos + 1)

part2_solve(cards) ==
    LET sorted == sorted_by_id(cards)
        card_values == [i \in DOMAIN sorted |-> wins(sorted[i])]
    IN part2_loop(card_values, [i \in DOMAIN card_values |-> 1], 0)

InitDay4 ==
    /\ Idle
    /\ pc = "call"
    /\ arg \in SeqsUpTo(Day4Card, MaxCards)
    /\ ret = <<>>

CallPart2Solve ==
    /\ pc = "call"
    /\ ret = <<>>
    /\ ret' = <<part2_solve(arg)>>
    /\ UNCHANGED <<arg, pc, iterVars, sumVars, parseVars, parVars>>

NextDay4 == CallPart2Solve

SpecDay4 == InitDay4 /\ [][NextDay4]_vars

(* day5.rs: the seed-to-location maps *)

NumMaps == 7
MaxStart == 2
MaxEntryLen == 2
MaxEntries == 2
MaxSeeds == 4

MapEntry ==
    [dst_range_start : 0..MaxStart, src_range_start : 0..MaxStart,
     len : 1..MaxEntryLen]

\* a Range<u64>, start..end with end exclusive
RangeOf(start, end) == [start |-> start, end |-> end]
RangeContains(r, v) == r.start <= v /\ v < r.end
RangeIsEmpty(r) == ~(r.start < r.end)

src_range(me) == RangeOf(me.src_range_start, me.src_range_start + me.len)

\* MapEntry::map_value: an Option<u64>, <<>> is None
entry_map_value(me, v) ==
    IF RangeContains(src_range(me), v)
    THEN <<v - me.src_range_start + me.dst_range_start>>
    ELSE <<>>

\* MapEntries::from: a stable sort by src_range_start
RECURSIVE MapEntriesFrom(_)
MapEntriesFrom(value) ==
    IF value = <<>> THEN <<>>
    ELSE LET rest == MapEntriesFrom(SubSeq(value, 1, Len(value) - 1))
             last == value[Len(value)]
             keep == Cardinality({i \in DOMAIN rest :
                        rest[i].src_range_start <= last.src_range_start})
         IN SubSeq(rest, 1, keep) \o <<last>> \o SubSeq(rest, keep + 1, Len(rest))

\* MapEntries::map_value: the first entry that maps v, else v itself
map_value(entries, v) ==
    LET hits == {i \in DOMAIN entries : entry_map_value(entries[i], v) # <<>>}
    IN IF hits = {} THEN v
       ELSE entry_map_value(entries[CHOOSE i \in hits : \A j \in hits : i <= j], v)[1]

\* the length of the translated piece that starts inside an entry
NewLenWholeRange(left_in_entry, r_len) == r_len
NewLen(left_in_entry, r_len) ==
    IF left_in_entry <= r_len THEN left_in_entry ELSE r_len

\* MapEntries::map_range from entry k on: Ok(range) or a failed assert!
RECURSIVE map_range_from(_, _, _)
map_range_from(entries, r, k) ==
    IF k > Len(entries) THEN Ok(r)
    ELSE LET me == entries[k]
             me_range == src_range(me)
         IN IF RangeIsEmpty(me_range) THEN Err("assertion failed")
            ELSE IF r.end <= me_range.start THEN Ok(r)
            ELSE IF r.start < me_range.start
                 THEN Ok(RangeOf(r.start, me_range.start))
            ELSE IF RangeContains(me_range, r.start)
                 THEN LET me_range_offset == r.start - me_range.start
                          new_len == NewLen(me_range.end - me_range.start
                                              - me_range_offset,
                                            r.end - r.start)
                          dst_start == me.dst_range_start + me_range_offset
                      IN IF new_len = 0 THEN Err("assertion failed")
                         ELSE Ok(RangeOf(dst_start, dst_start + new_len))
            ELSE map_range_from(entries, r, k + 1)

map_range(entries, r) ==
    IF RangeIsEmpty(r) THEN Err("assertion failed")
    ELSE map_range_from(entries, r, 1)

\* Input::seed_to_location: the fold of map_value over the maps from map k on
RECURSIVE seed_to_location_from(_, _, _)
seed_to_location_from(maps, value, k) ==
    IF k > Len(maps) THEN value
    ELSE seed_to_location_from(maps, map_value(maps[k], value), k + 1)

seed_to_location(input, seed) == seed_to_location_from(input.maps, seed, 1)

\* the fold of map_range over the maps from map k on
RECURSIVE fold_map_range(_, _, _)
fold_map_range(maps, r, k) ==
    IF k > Len(maps) THEN Ok(r)
    ELSE LET mapped == map_range(maps[k], r)
         IN IF ~mapped.ok THEN mapped
            ELSE fold_map_range(maps, mapped.val, k + 1)

\* min(candidate_location, start), where the candidate <<>> stands for the
\* initial u64::MAX, which no u64 exceeds
min_candidate(candidate_location, start) ==
    IF candidate_location = <<>> THEN <<start>>
    ELSE IF start < candidate_location[1] THEN <<start>>
    ELSE candidate_location

\* the loop of find_closest_seed_location_2 for one seed range; it makes at
\* most `passes` further passes when every pass translates a seed or more
RECURSIVE seed_range_loop(_, _, _, _, _)
seed_range_loop(input, seed_range, cur, candidate_location, passes) ==
    LET range == fold_map_range(input.maps, RangeOf(cur, seed_range.end), 1)
    IN IF ~range.ok THEN range
       ELSE LET next_cur == cur + (range.val.end - range.val.start)
                candidate == min_candidate(candidate_location, range.val.start)
            IN IF ~RangeContains(seed_range, next_cur) THEN Ok(candidate)
               ELSE IF passes = 0 THEN Diverges
               ELSE seed_range_loop(input, seed_range, next_cur, candidate,
                                    passes - 1)

\* the closure mapped over the (start, len) tuples
closest_in_range(input, start, len) ==
    IF len = 0 THEN Err("assertion failed")
    ELSE seed_range_loop(input, RangeOf(start, start + len), start, <<>>, len)

\* tuples::<(u64, u64)>(): the pairs of the seeds, an odd last seed dropped
seed_tuples(seeds) ==
    [i \in 1..(Len(seeds) \div 2) |-> <<seeds[2 * i - 1], seeds[2 * i]>>]

\* .map(..).min() over the tuples from tuple k on: Ok of an Option<u64>
RECURSIVE min_over_tuples(_, _, _, _)
min_over_tuples(input, tuples, k, best) ==
    IF k > Len(tuples) THEN Ok(best)
    ELSE LET location == closest_in_range(input, tuples[k][1], tuples[k][2])
         IN IF ~location.ok THEN location
            ELSE min_over_tuples(input, tuples, k + 1,
                                 min_candidate(best, location.val[1]))

find_closest_seed_location_2(input) ==
    min_over_tuples(input, seed_tuples(input.seeds), 1, <<>>)

Day5Input ==
    {[seeds |-> seeds,
      maps |-> [k \in 1..NumMaps |->
                  IF k = 1 THEN MapEntriesFrom(first)
                  ELSE IF k = 2 THEN MapEntriesFrom(second)
                  ELSE <<>>]] :
        seeds \in SeqsUpTo(1..MaxStart, MaxSeeds),
        first \in SeqsUpTo(MapEntry, MaxEntries),
        second \in SeqsUpTo(MapEntry, 1)}

InitDay5 ==
    /\ Idle
    /\ pc = "call"
    /\ arg \in Day5Input
    /\ ret = <<>>

CallFindClosest2 ==
    /\ pc = "call"
    /\ ret = <<>>
    /\ ret' = <<find_closest_seed_location_2(arg)>>
    /\ UNCHANGED <<arg, pc, iterVars, sumVars, parseVars, parVars>>

NextDay5 == CallFindClosest2

SpecDay5 == InitDay5 /\ [][NextDay5]_vars

(* Reference notions the claims are stated with *)

Range(s) == {s[i] : i \in 1..Len(s)}

RECURSIVE SortedSeq(_)
SortedSeq(S) ==
    IF S = {} THEN <<>>
    ELSE LET m == CHOOSE x \in S : \A y \in S : x <= y
         IN  <<m>> \o SortedSeq(S \ {m})

\* positions where a maximal run of Broken cells starts
RunStarts(s) ==
    {i \in 1..Len(s) : s[i] = "Broken" /\ (i = 1 \/ s[i - 1] # "Broken")}

\* length of the maximal run of Broken cells that starts at i
RunLengthAt(s, i) ==
    Cardinality({j \in i..Len(s) : \A k \in i..j : s[k] = "Broken"})

\* lengths of the maximal runs of Broken cells, left to right
RunLengths(s) ==
    LET starts == SortedSeq(RunStarts(s))
    IN  [n \in 1..Len(starts) |-> RunLengthAt(s, starts[n])]

UnknownCells(l) == {i \in 1..Len(l.states) : l.states[i] = "None"}

\* the 2^u assignments of the Unknown cells of a record, as full sequences
Assignments(l) ==
    {[i \in 1..Len(l.states) |->
        IF l.states[i] = "None" THEN a[i] ELSE l.states[i]] :
     a \in [UnknownCells(l) -> SpringState]}

ValidCompletions(l) ==
    {c \in Assignments(l) : RunLengths(c) = l.broken_groups}

-----------------------------------------------------------------------------
(* Claims about the enumerator, checked under Spec *)

\* C1: for every record, Line::solutions returns the number of the 2^u
\* assignments of its Unknown cells whose maximal Broken run lengths equal the
\* target list (records of length zero included).
C1_CountEqualsBruteForce ==
    /\ pc # "panic"
    /\ pc = "done" => Len(emitted) = Cardinality(ValidCompletions(line))

\* C2: every completion that next() returns has the target list as its
\* run-length list, so the debug assertion of Line::solutions never fails.
C2_EveryEmittedMatchesTarget ==
    /\ pc # "panic"
    /\ \A i \in 1..Len(emitted) : RunLengths(emitted[i]) = line.broken_groups

\* C3: the enumerator emits every valid completion of the record and emits no
\* completion more than once.
C3_CompleteAndDistinct ==
    /\ \A i, j \in 1..Len(emitted) : emitted[i] = emitted[j] => i = j
    /\ pc = "done" => ValidCompletions(line) \subseteq Range(emitted)

\* C3 witness: a finished enumeration that emitted several valid completions
\* of a record with Unknown cells.
C3_Witness ==
    /\ pc = "done"
    /\ Cardinality(ValidCompletions(line)) >= 3
    /\ Len(emitted) >= 3
    /\ line.broken_groups # <<>>

AllOperational(n) == [i \in 1..n |-> "Operational"]

HasBroken(l) == \E i \in 1..Len(l.states) : l.states[i] = "Broken"

\* C9: with an empty target list the enumerator emits exactly the
\* all-Operational completion when the record has no Broken cell and nothing
\* when it has one; a prefix with an empty group list is accepted.
C9_EmptyTarget ==
    line.broken_groups = <<>> =>
        /\ pc = "done" =>
              emitted = IF HasBroken(line) THEN <<>>
                        ELSE <<AllOperational(Len(line.states))>>
        /\ \A i \in 1..Len(backtrack_stack) :
              backtrack_stack[i] = AllOperational(Len(backtrack_stack[i]))
        /\ \A n \in 1..Len(line.states) :
              (\A k \in 1..n : line.states[k] # "Broken") =>
                  maybe_backtrack(line.states, <<>>, <<>>, AllOperational(n))
                      = <<AllOperational(n)>>

\* C9 witness: a finished enumeration of a record with empty target, Unknown
\* cells and no Broken cell, which emitted the all-Operational completion.
C9_Witness ==
    /\ line.broken_groups = <<>>
    /\ pc = "done"
    /\ Len(line.states) >= 2
    /\ UnknownCells(line) # {}
    /\ ~HasBroken(line)
    /\ emitted = <<AllOperational(Len(line.states))>>

-----------------------------------------------------------------------------
(* Claims about Line::unfold, checked under SpecUnfold *)

\* the record unfold was applied to for its n-th result
UnfoldArg(n) == IF n = 1 THEN arg ELSE ret[n - 1]

\* C6: unfold returns five copies of the cells with exactly one Unknown cell
\* between consecutive copies, and the target repeated five times in order.
C6_UnfoldShape ==
    \A n \in 1..Len(ret) :
        LET c == UnfoldArg(n).states
            t == UnfoldArg(n).broken_groups
            L == Len(c)
            g == Len(t)
        IN  /\ Len(ret[n].states) = 5 * L + 4
            /\ \A i \in 0..4 : \A j \in 1..L :
                  ret[n].states[i * (L + 1) + j] = c[j]
            /\ \A i \in 0..3 : ret[n].states[i * (L + 1) + L + 1] = "None"
            /\ Len(ret[n].broken_groups) = 5 * g
            /\ \A i \in 0..4 : \A j \in 1..g :
                  ret[n].broken_groups[i * g + j] = t[j]

\* C6 witness: unfold has returned for a record with cells of all three kinds
\* and two different run lengths.
C6_Witness ==
    /\ Len(ret) >= 1
    /\ Range(arg.states) = OptionSpringState
    /\ Len(arg.broken_groups) = 2
    /\ arg.broken_groups[1] # arg.broken_groups[2]

\* C7: unfold of a record of length L with g groups has length 5L + 4 and 5g
\* groups; unfold(unfold(r)) has 25L + 24 cells and 25g groups and differs from
\* unfold(r).
C7_UnfoldLaws ==
    LET L == Len(arg.states)
        g == Len(arg.broken_groups)
    IN  /\ Len(ret) >= 1 =>
              /\ Len(ret[1].states) = 5 * L + 4
              /\ Len(ret[1].broken_groups) = 5 * g
        /\ Len(ret) >= 2 =>
              /\ Len(ret[2].states) = 25 * L + 24
              /\ Len(ret[2].broken_groups) = 25 * g
              /\ ret[2] # ret[1]

\* C7 witness: unfold has been applied twice to the record with no cell and
\* no group.
C7_Witness ==
    /\ Len(ret) >= 2
    /\ arg.states = <<>>
    /\ arg.broken_groups = <<>>

-----------------------------------------------------------------------------
(* Claims about broken_groups, checked under SpecGroups *)

\* n runs of k Broken cells separated by single Operational cells
RunsOf(n, k) ==
    [p \in 1..(n * k + n - 1) |->
        IF p % (k + 1) = 0 THEN "Operational" ELSE "Broken"]

\* C8: broken_groups returns, left to right, the lengths of the maximal runs
\* of Broken cells and nothing else; empty and all-Operational sequences give
\* the empty list, n runs of k give n copies of k.
C8_BrokenGroupsAreRunLengths ==
    ret # <<>> =>
        /\ ret[1] = RunLengths(arg)
        /\ (\A i \in 1..Len(arg) : arg[i] = "Operational") => ret[1] = <<>>
        /\ \A n \in 1..(Len(arg) + 1) : \A k \in 1..Len(arg) :
              arg = RunsOf(n, k) => ret[1] = [i \in 1..n |-> k]

\* C8 witness: broken_groups has returned for two runs of two Broken cells
\* separated by one Operational cell.
C8_Witness ==
    /\ ret # <<>>
    /\ arg = RunsOf(2, 2)
    /\ ret[1] = <<2, 2>>

-----------------------------------------------------------------------------
(* Claims about the documented records, checked under SpecScenario *)

SixCounts == <<1, 4, 1, 1, 4, 10>>

SixRun == part = 1 /\ Len(lines) = 6

\* C4: without unfolding, the six documented records give the counts 1, 4, 1,
\* 1, 4 and 10, and the sum of the six counts is 21.
C4_DocumentedCounts ==
    SixRun =>
        /\ \A i \in 1..Len(counts) : counts[i] = SixCounts[i]
        /\ pc = "end" =>
              /\ counts = SixCounts
              /\ total = 21
              /\ printed = <<21>>

\* C4 witness: the first sum over the six documented records has been printed.
C4_Witness ==
    /\ SixRun
    /\ pc = "end"
    /\ Len(counts) = 6
    /\ printed # <<>>

DotHashUnfoldRun == part = 2 /\ lines = <<[states |-> <<"Operational", "Broken">>,
                                           broken_groups |-> <<1>>]>>

DotHashUnfolded ==
    [states |-> <<"Operational", "Broken", "None",
                  "Operational", "Broken", "None",
                  "Operational", "Broken", "None",
                  "Operational", "Broken", "None",
                  "Operational", "Broken">>,
     broken_groups |-> <<1, 1, 1, 1, 1>>]

\* C5: unfolding ".# 1" gives the pattern .#?.#?.#?.#?.# with target
\* 1,1,1,1,1, exactly one assignment of its four Unknown cells is valid, and
\* the count of its completions is 1.
C5_UnfoldedDotHash ==
    DotHashUnfoldRun =>
        /\ pc \in {"iter", "done"} =>
              /\ line = DotHashUnfolded
              /\ Cardinality(UnknownCells(line)) = 4
              /\ Cardinality(ValidCompletions(line)) = 1
        /\ Len(counts) >= 1 => counts[1] = 1
        /\ pc = "end" => total = 1 /\ printed = <<1>>

\* C5 witness: the second sum over ".# 1" has been printed.
C5_Witness ==
    /\ DotHashUnfoldRun
    /\ pc = "end"
    /\ counts = <<1>>

-----------------------------------------------------------------------------
(* Claims about parsing, checked under SpecParse *)

\* C10: when a line of the text is malformed, parsing yields an error and no
\* record list, the lines parsed before it are not kept, and solve() prints
\* nothing.
C10_MalformedLineAbortsParsing ==
    malformed_seen =>
        /\ pc = "failed"
        /\ Len(ret) = 1 /\ ~ret[1].ok
        /\ acc = <<>>
        /\ lines = <<>>
        /\ printed = <<>>

\* C10 witness: a malformed line came after a well-formed one and parsing has
\* failed.
C10_Witness ==
    /\ malformed_seen
    /\ lines_read = 2
    /\ pc = "failed"

-----------------------------------------------------------------------------
(* Claims about the pruning predicate and the stack, checked under Spec *)

\* maybe_backtrack pushes the candidate p for the record l
\* the iterator has just been built.  What maybe_backtrack answers depends on
\* the record and the candidate alone, so the claims about it for every
\* prefix of the record are examined once per record, in this state
Fresh == pc = "iter" /\ backtrack_stack = NewStack /\ emitted = <<>>

Accepts(l, p) == maybe_backtrack(l.states, l.broken_groups, <<>>, p) = <<p>>

\* every candidate shorter than the record: one to L - 1 decided cells
ShortPrefixes(l) ==
    UNION {[1..k -> SpringState] : k \in 1..(Len(l.states) - 1)}

CountBroken(p) == Cardinality({i \in 1..Len(p) : p[i] = "Broken"})

EndsInBroken(p) == p # <<>> /\ p[Len(p)] = "Broken"

\* run lengths of the groups of p that an Operational cell has closed
ClosedRunLengths(p) ==
    IF EndsInBroken(p)
    THEN SubSeq(RunLengths(p), 1, Len(RunLengths(p)) - 1)
    ELSE RunLengths(p)

ClosedGroupsDiffer(l, p) ==
    \/ Len(ClosedRunLengths(p)) > Len(l.broken_groups)
    \/ \E i \in 1..Len(ClosedRunLengths(p)) :
          ClosedRunLengths(p)[i] # l.broken_groups[i]

Max0(x) == IF x > 0 THEN x ELSE 0

\* C14: the predicate never prunes a viable prefix: every proper prefix
\* (length 1 to L - 1) of a valid completion of the record is pushed.
C14_ViablePrefixesPushed ==
    Fresh =>
    \A c \in ValidCompletions(line) :
        \A n \in 1..(Len(c) - 1) : Accepts(line, SubSeq(c, 1, n))

\* C14 witness: the stack holds a proper prefix, of two cells or more and
\* ending in an open Broken group, of a valid completion of a record with
\* Unknown cells.
C14_Witness ==
    /\ UnknownCells(line) # {}
    /\ \E i \in 1..Len(backtrack_stack) :
          LET p == backtrack_stack[i]
          IN  /\ Len(p) >= 2
              /\ Len(p) < Len(line.states)
              /\ EndsInBroken(p)
              /\ \E c \in ValidCompletions(line) : SubSeq(c, 1, Len(p)) = p

\* C16: in every reachable state every prefix on the stack has passed the
\* feasibility predicate: maybe_backtrack would accept it for this record.
C16_StackEntriesAccepted ==
    \A i \in 1..Len(backtrack_stack) : Accepts(line, backtrack_stack[i])

\* C16 (amended): every non-empty prefix on the stack has passed the
\* feasibility predicate; the empty prefix that new() pushes has not been
\* tested and need not pass it.
C16_NonEmptyStackEntriesAccepted ==
    \A i \in 1..Len(backtrack_stack) :
        backtrack_stack[i] # <<>> => Accepts(line, backtrack_stack[i])

\* C16 witness: two tested prefixes of different lengths wait on the stack of
\* a record with Unknown cells.
C16_Witness ==
    /\ Len(backtrack_stack) >= 2
    /\ Len(backtrack_stack[1]) >= 1
    /\ Len(backtrack_stack[1]) < Len(Top(backtrack_stack))
    /\ UnknownCells(line) # {}

AgreesWithRecord(l, p) ==
    /\ Len(p) <= Len(l.states)
    /\ \A k \in 1..Len(p) : l.states[k] # "None" => p[k] = l.states[k]

\* C17: every prefix on the stack and every emitted completion is no longer
\* than the record and equals the record's cell wherever that cell is
\* resolved.
C17_PrefixesAgreeWithRecord ==
    /\ \A i \in 1..Len(backtrack_stack) : AgreesWithRecord(line, backtrack_stack[i])
    /\ \A i \in 1..Len(emitted) :
          /\ AgreesWithRecord(line, emitted[i])
          /\ Len(emitted[i]) = Len(line.states)

\* C17 witness: a completion has been emitted and a prefix of two cells or
\* more is stacked, for a record with Operational, Broken and Unknown cells.
C17_Witness ==
    /\ Range(line.states) = OptionSpringState
    /\ emitted # <<>>
    /\ \E i \in 1..Len(backtrack_stack) : Len(backtrack_stack[i]) >= 2

\* the counting test of the predicate, from the cells of the prefix
Fits(l, p) ==
    LET g == Len(l.broken_groups)
        need == AbsDiff(Sum(l.broken_groups), CountBroken(p))
    IN  need + Max0(g - Len(RunLengths(p)) - 1) <= Len(l.states) - Len(p)

\* C19: a prefix shorter than the record whose closed groups differ from the
\* equally long prefix of the target is not pushed; the open last group is
\* never compared against the target.
C19_ClosedGroupsMustMatch ==
    Fresh =>
    \A p \in ShortPrefixes(line) :
        /\ ClosedGroupsDiffer(line, p) => ~Accepts(line, p)
        /\ ( /\ EndsInBroken(p)
             /\ Len(RunLengths(p)) <= Len(line.broken_groups)
             /\ Fits(line, p)
             /\ ~ClosedGroupsDiffer(line, p) ) => Accepts(line, p)

\* the prefix that the next step offers first to maybe_backtrack
NextCandidate ==
    LET cur == Top(backtrack_stack)
        cell == line.states[Len(cur) + 1]
    IN  Append(cur, IF cell = "None" THEN "Operational" ELSE cell)

Extending ==
    /\ pc = "iter"
    /\ backtrack_stack # <<>>
    /\ Len(Top(backtrack_stack)) < Len(line.states)

\* C19 witness: the next candidate is shorter than the record, passes the
\* group count and the counting test and has a closed group that differs from
\* the target, while a stacked prefix has an open group longer than the
\* target group it belongs to.
C19_Witness ==
    /\ Extending
    /\ Len(NextCandidate) < Len(line.states)
    /\ Len(RunLengths(NextCandidate)) <= Len(line.broken_groups)
    /\ Fits(line, NextCandidate)
    /\ ClosedGroupsDiffer(line, NextCandidate)
    /\ \E i \in 1..Len(backtrack_stack) :
          LET p == backtrack_stack[i]
              r == RunLengths(p)
          IN  /\ EndsInBroken(p)
              /\ Len(p) < Len(line.states)
              /\ r[Len(r)] > line.broken_groups[Len(r)]

\* what the claim's test charges a prefix: Broken cells the target still
\* requires plus one separator per group not yet started, but the last
Shortfall(l, p) ==
    (Sum(l.broken_groups) - CountBroken(p))
        + Max0(Len(l.broken_groups) - Len(RunLengths(p)) - 1)

\* C20: a prefix shorter than the record with no more groups than the target
\* is rejected whenever the Broken cells still required plus max(0, m - 1)
\* separators exceed the undecided cells.
C20_UnfittablePrefixRejected ==
    Fresh =>
    \A p \in ShortPrefixes(line) :
        ( /\ Len(RunLengths(p)) <= Len(line.broken_groups)
          /\ Shortfall(line, p) > Len(line.states) - Len(p) )
            => ~Accepts(line, p)

\* C20 witness: the next candidate is shorter than the record, matches the
\* target in its closed groups and cannot be completed in the cells left.
C20_Witness ==
    /\ Extending
    /\ Len(Top(backtrack_stack)) >= 1
    /\ Len(NextCandidate) < Len(line.states)
    /\ Len(RunLengths(NextCandidate)) <= Len(line.broken_groups)
    /\ ~ClosedGroupsDiffer(line, NextCandidate)
    /\ Shortfall(line, NextCandidate) > Len(line.states) - Len(NextCandidate)

\* the candidates one step offers to maybe_backtrack, in the order offered
Candidates ==
    LET cur == Top(backtrack_stack)
        cell == line.states[Len(cur) + 1]
    IN  IF cell = "None"
        THEN <<Append(cur, "Operational"), Append(cur, "Broken")>>
        ELSE <<Append(cur, cell)>>

\* C18: a step extends the popped prefix by one cell, the next one to the
\* right; at an Unknown cell the Operational extension is tested and pushed
\* before the Broken one, each pushed if and only if it survives the predicate.
C18_OneCellOperationalFirst ==
    [][Extending =>
         backtrack_stack' =
             Pop(backtrack_stack)
                 \o SelectSeq(Candidates, LAMBDA p : Accepts(line, p))]_vars

\* C18 witness: both extensions of a prefix at an Unknown cell are on the
\* stack, the Operational one below the Broken one.
C18_Witness ==
    /\ Len(backtrack_stack) >= 2
    /\ LET lo == backtrack_stack[Len(backtrack_stack) - 1]
           hi == backtrack_stack[Len(backtrack_stack)]
       IN  /\ Len(lo) = Len(hi)
           /\ Len(lo) >= 2
           /\ line.states[Len(lo)] = "None"
           /\ SubSeq(lo, 1, Len(lo) - 1) = SubSeq(hi, 1, Len(hi) - 1)
           /\ lo[Len(lo)] = "Operational"
           /\ hi[Len(hi)] = "Broken"

-----------------------------------------------------------------------------
(* Claims about termination, checked under SpecLive *)

\* every entry that a step adds is one cell longer than the popped prefix
\* and no longer than the record, and the entries below are kept
PopReplacedByLonger ==
    backtrack_stack # <<>> =>
        /\ Len(backtrack_stack') >= Len(backtrack_stack) - 1
        /\ SubSeq(backtrack_stack', 1, Len(backtrack_stack) - 1)
              = Pop(backtrack_stack)
        /\ \A i \in Len(backtrack_stack)..Len(backtrack_stack') :
              /\ Len(backtrack_stack'[i]) = Len(Top(backtrack_stack)) + 1
              /\ Len(backtrack_stack'[i]) <= Len(line.states)

\* C15: repeated calls to next() reach the empty stack after finitely many
\* pops, each pop being replaced only by strictly longer prefixes of length at
\* most L; from then on next() returns None and the stack stays empty.
C15_ReachesEmptyStackAndStays ==
    /\ <>[](backtrack_stack = <<>>)
    /\ [][PopReplacedByLonger]_vars
    /\ [][backtrack_stack = <<>> => backtrack_stack' = <<>> /\ emitted' = emitted]_vars

\* C15 witness: next() has returned None with the stack empty, after several
\* completions of a record of three cells or more.
C15_Witness ==
    /\ pc = "done"
    /\ backtrack_stack = <<>>
    /\ Len(line.states) >= 3
    /\ Len(emitted) >= 2

-----------------------------------------------------------------------------
(* Claims about independent enumerators, checked under SpecTwin *)

IsPrefix(s, t) == Len(s) <= Len(t) /\ SubSeq(t, 1, Len(s)) = s

-----------------------------------------------------------------------------
(* Claims about the parallel sum, checked under SpecPar *)

\* what solutions() is to return for the unfolded form of a record: the
\* number of its valid completions, counted over every assignment
UnfoldedSolutions ==
    [l \in ParRecords |-> Cardinality(ValidCompletions(unfold(l)))]

RECURSIVE SequentialSum(_)
SequentialSum(ls) ==
    IF ls = <<>> THEN 0
    ELSE UnfoldedSolutions[Head(ls)] + SequentialSum(Tail(ls))

\* how many times record i has been mapped to its count
TimesMapped(i) ==
    SumOver([w \in Workers |->
                Cardinality({k \in 1..Len(iters[w].mapped) :
                                iters[w].mapped[k] = i})],
            Workers)

\* C12: whatever the schedule of the workers, the sum that is printed equals
\* the sequential left-to-right sum of solutions(unfold(record)); every record
\* is mapped exactly once, no two workers ever hold the same record, and a
\* step of one worker leaves every other worker's iterator and partial sum
\* as they are.
C12_ParallelSumEqualsSequential ==
    /\ [](pc = "end" =>
            /\ total = SequentialSum(lines)
            /\ printed = <<SequentialSum(lines)>>
            /\ \A i \in 1..Len(lines) : TimesMapped(i) = 1)
    /\ [](\A v, w \in Workers :
            (v # w /\ iters[v].rec # 0) => iters[v].rec # iters[w].rec)
    /\ [](\A i \in 1..Len(lines) : TimesMapped(i) <= 1)
    /\ [][\A v, w \in Workers :
            (v # w /\ iters'[v] # iters[v]) => iters'[w] = iters[w]]_vars

\* C12 witness: the sum of two different records is printed, each of the two
\* workers having mapped one of them, and the sum is not zero.
C12_Witness ==
    /\ pc = "end"
    /\ Len(lines) = 2
    /\ lines[1] # lines[2]
    /\ \A w \in Workers : Len(iters[w].mapped) >= 1
    /\ iters[1].sum > iters[2].sum
    /\ iters[2].sum > 0
    /\ total > 1

-----------------------------------------------------------------------------
(* Claims about what the enumerator and unfold leave alone, checked under
   SpecScenario *)

\* C13: no step of the enumerator (pop, forced extension, two-way extension,
\* feasibility test, push, emit) and no unfold changes the cells or the
\* target of the source record: the parsed records stay as parsed, the record
\* an enumerator borrows stays as it was when the enumerator was built, and
\* that is the source record or its unfolded copy.
C13_SourceRecordUnchanged ==
    /\ [][lines' = lines /\ (pc = "iter" => line' = line)]_vars
    /\ [](pc \in {"iter", "done"} =>
             line = IF part = 1 THEN lines[idx] ELSE unfold(lines[idx]))
    /\ [](\E run \in ScenarioRuns :
             lines = InputFromStr(run.text, <<>>).val.lines)

\* C13 witness: the enumerator of an unfolded record has emitted a completion
\* and the source record still is the parsed one, not its unfolded form.
C13_Witness ==
    /\ part = 2
    /\ pc = "iter"
    /\ emitted # <<>>
    /\ lines = InputFromStr(DotHashText, <<>>).val.lines
    /\ line = unfold(lines[idx])
    /\ line # lines[idx]

-----------------------------------------------------------------------------
(* Further claims about the enumerator, checked under Spec *)

\* the record read as a full assignment, when it has no Unknown cell
Resolved(l) == [i \in 1..Len(l.states) |-> l.states[i]]

\* C21: for a record without an Unknown cell, of any length, the stack never
\* holds more than one entry and the count is 1 when the record's own
\* run-length list equals the target and 0 otherwise.
C21_ResolvedRecordSinglePath ==
    UnknownCells(line) = {} =>
        /\ Len(backtrack_stack) <= 1
        /\ pc # "panic"
        /\ pc = "done" =>
              Len(emitted) =
                  IF RunLengths(Resolved(line)) = line.broken_groups
                  THEN 1 ELSE 0

\* C22: for every candidate that a step passes to maybe_backtrack, no
\* unsigned subtraction goes below zero and the slice of the target taken
\* for the prefix comparison lies within the target: no panic.
C22_PredicateNeverPanics ==
    Extending =>
        \A k \in 1..Len(Candidates) :
            ~maybe_backtrack_panics(line.states, line.broken_groups,
                                    Candidates[k])

\* C22 witness: a candidate with as many groups as the target, the last one
\* still open, is about to be tested at an Unknown cell.
C22_Witness ==
    /\ Extending
    /\ Len(Top(backtrack_stack)) >= 1
    /\ Len(Candidates) = 2
    /\ line.broken_groups # <<>>
    /\ Len(RunLengths(Candidates[2])) = Len(line.broken_groups)
    /\ Len(Candidates[2]) < Len(line.states)

\* a comes before b in the order in which Broken is above Operational and
\* the leftmost difference decides
LexGreater(a, b) ==
    \E i \in 1..Len(a) :
        /\ i <= Len(b)
        /\ SubSeq(a, 1, i - 1) = SubSeq(b, 1, i - 1)
        /\ a[i] = "Broken"
        /\ b[i] = "Operational"

\* C23: the completions are emitted in strictly decreasing lexicographic
\* order under Broken > Operational: at the first cell where two emitted
\* completions differ, the one emitted earlier has Broken.
C23_EmittedInDecreasingOrder ==
    \A i, j \in 1..Len(emitted) :
        i < j => LexGreater(emitted[i], emitted[j])

\* C23 witness: three completions have been emitted, and the first two already
\* differ in their first cell.
C23_Witness ==
    /\ Len(emitted) >= 3
    /\ emitted[1][1] # emitted[3][1]
    /\ emitted[2][1] = emitted[3][1]

\* C30: the stack holds at most u + 1 prefixes, u the number of Unknown cells
\* of the record, and the lengths of the stacked prefixes do not decrease
\* from the bottom of the stack to the top.
C30_StackBoundedAndOrdered ==
    /\ Len(backtrack_stack) <= Cardinality(UnknownCells(line)) + 1
    /\ \A i \in 1..(Len(backtrack_stack) - 1) :
          Len(backtrack_stack[i]) <= Len(backtrack_stack[i + 1])

\* C30 witness: three prefixes of three different lengths wait on the stack.
C30_Witness ==
    /\ Len(backtrack_stack) >= 3
    /\ Len(backtrack_stack[1]) < Len(backtrack_stack[2])
    /\ Len(backtrack_stack[2]) < Len(backtrack_stack[3])

-----------------------------------------------------------------------------
(* Claims about day 10, checked under SpecGet *)

\* the number of rows of a grid, as Input::rows computes it
GridRows(input) ==
    IF input.columns = 0 THEN 0 ELSE Len(input.data) \div input.columns

InsideGrid(input, col, row) ==
    /\ 0 <= col /\ col < input.columns
    /\ 0 <= row /\ row < GridRows(input)

\* C24: Input::get(col, row) returns the stored tile for every coordinate
\* inside the grid and '.' for every coordinate outside it, also for
\* col >= columns on a row that is not the last one.
C24_GetGroundOutsideGrid ==
    ret # <<>> =>
        ret[1] = IF InsideGrid(arg.input, arg.col, arg.row)
                 THEN arg.input.data[arg.row * arg.input.columns + arg.col + 1]
                 ELSE "."

-----------------------------------------------------------------------------
(* Claims about day 8, checked under SpecDay8 *)

\* how far the walks are followed in lockstep
MaxSteps == 16

StartLabels(input) == {l \in DOMAIN input.map : is_start_node(l)}

\* where the walk from start is after t steps over the repeated directions
\* (it does not stop on an end node)
RECURSIVE Position(_, _, _)
Position(input, start, t) ==
    IF t = 0 THEN start
    ELSE LET before == Position(input, start, t - 1)
             direction == input.directions[((t - 1) % Len(input.directions)) + 1]
         IN  IF direction = "Left" THEN input.map[before][1]
             ELSE input.map[before][2]

AllOnEndNodes(input, t) ==
    \A l \in StartLabels(input) : is_end_node(Position(input, l, t))

EveryWalkReachesEnd(input) ==
    /\ input.directions # <<>>
    /\ \A l \in StartLabels(input) : solve_one(input, l).ok

\* t is the smallest step count at which all walks are on end nodes
SmallestTogether(input, t) ==
    /\ AllOnEndNodes(input, t)
    /\ \A u \in 0..(t - 1) : ~AllOnEndNodes(input, u)

\* C25: whenever each walk reaches an end node, solve_part2 returns the
\* smallest step count at which all walks are on end nodes together (stated
\* for the inputs where such a step count exists within MaxSteps).
C25_Part2SmallestSimultaneous ==
    (/\ ret # <<>>
     /\ EveryWalkReachesEnd(arg)
     /\ \E t \in 0..MaxSteps : AllOnEndNodes(arg, t)) =>
        /\ ret[1].ok
        /\ ret[1].val <= MaxSteps
        /\ SmallestTogether(arg, ret[1].val)

\* each walk is on an end node exactly at the positive multiples of the step
\* count at which it first reaches one
WalksArePeriodic(input) ==
    \A l \in StartLabels(input) :
        \A t \in 1..MaxSteps :
            is_end_node(Position(input, l, t))
                <=> (t % solve_one(input, l).val = 0)

\* C25 (amended): when each walk reaches an end node and from then on is on
\* an end node exactly at the multiples of its first step count, solve_part2
\* returns the smallest step count at which all walks are on end nodes.
C25_Part2SmallestWhenPeriodic ==
    (/\ ret # <<>>
     /\ EveryWalkReachesEnd(arg)
     /\ WalksArePeriodic(arg)) =>
        /\ ret[1].ok
        /\ ret[1].val <= MaxSteps => SmallestTogether(arg, ret[1].val)
        /\ ret[1].val > MaxSteps =>
              \A t \in 0..MaxSteps : ~AllOnEndNodes(arg, t)

\* C25 witness: two periodic walks with different step counts, and the answer
\* is larger than one of them.
C25_Witness ==
    /\ ret # <<>>
    /\ EveryWalkReachesEnd(arg)
    /\ WalksArePeriodic(arg)
    /\ ret[1].ok
    /\ \E l \in StartLabels(arg) : solve_one(arg, l).val < ret[1].val
    /\ ret[1].val <= MaxSteps

-----------------------------------------------------------------------------
(* Claims about day 7, checked under SpecDay7 *)

KindRank(k) == CHOOSE n \in 1..Len(Kind) : Kind[n] = k

\* the Kind of five non-joker cards, from how many different faces there are
\* and how often the commonest occurs
KindByFaces(cards) ==
    LET faces == {cards[i] : i \in 1..HandSize}
        most == CHOOSE n \in 1..HandSize :
                   /\ \E f \in faces :
                         Cardinality({i \in 1..HandSize : cards[i] = f}) = n
                   /\ \A f \in faces :
                         Cardinality({i \in 1..HandSize : cards[i] = f}) <= n
        distinct == Cardinality(faces)
    IN  IF most = 5 THEN "FiveOfAKind"
        ELSE IF most = 4 THEN "FourOfAKind"
        ELSE IF most = 3 THEN (IF distinct = 2 THEN "FullHouse" ELSE "ThreeOfAKind")
        ELSE IF most = 2 THEN (IF distinct = 3 THEN "TwoPair" ELSE "OnePair")
        ELSE "HighCard"

\* the hands got by replacing every Joker of the hand by a non-joker card
Replacements(hand) ==
    {[i \in 1..HandSize |->
        IF hand.cards[i] = "Joker" THEN a[i] ELSE hand.cards[i]] :
     a \in [{i \in 1..HandSize : hand.cards[i] = "Joker"} -> NormalCard]}

Jokers(hand) == count_card(hand, "Joker")

\* C26: for every five-card hand with 0 to 5 Jokers, kind_with_jokers
\* returns the strongest Kind that replacing every Joker by some non-joker
\* card can give; it does not reach unreachable!() and does not index
\* card_counts out of bounds.
C26_StrongestKindWithJokers ==
    ret # <<>> =>
        /\ ret[1] # "panic"
        /\ \E cards \in Replacements(arg.hand) : KindByFaces(cards) = ret[1]
        /\ \A cards \in Replacements(arg.hand) :
              KindRank(KindByFaces(cards)) <= KindRank(ret[1])

\* C26 witness: a hand with two Jokers and a pair has been ranked four of a
\* kind.
C26_Witness ==
    /\ ret = <<"FourOfAKind">>
    /\ Jokers(arg.hand) = 2
    /\ \E c \in NormalCard : count_card(arg.hand, c) = 2

(* Claims about the command-line dispatch, checked under SpecMain *)

\* C27: for every day argument d in 0..=255, main either runs exactly the
\* one solver registered for day d (1 <= d <= 11) or returns the error
\* 'Invalid day or no solution yet!' without running any solver, and the u8
\* computation d - 1 never overflows or panics.
C27_DispatchNeverOverflows ==
    (ret # <<>> /\ arg.day # <<>>) =>
        /\ ret[1].result # "panic"
        /\ ~ret[1].overflowed
        /\ IF arg.day[1] \in 1..NumSolutions
           THEN ret[1].ran = arg.day
           ELSE /\ ret[1].ran = <<>>
                /\ ret[1].result = "Invalid day or no solution yet!"

(* Claims about the scratchcard table, checked under SpecDay4 *)

\* C29: for every list of cards, the slice card_counts[pos+1 .. pos+1+wins]
\* taken by part2_solve for each position lies within the card table, so
\* part2_solve never panics and returns a total for every input, including
\* inputs where a card near the end of the table has matches.
C29_Part2SolveNeverPanics ==
    ret # <<>> => ret[1].ok

(* Claims about the seed-to-location maps, checked under SpecDay5 *)

\* every seed of every (start, len) range of the input
SeedsOfRanges(input) ==
    UNION {tuple[1]..(tuple[1] + tuple[2] - 1) :
             tuple \in Range(seed_tuples(input.seeds))}

\* the locations of the seeds, each seed mapped on its own
SeedLocations(input) ==
    {seed_to_location(input, seed) : seed \in SeedsOfRanges(input)}

\* C28: for every input whose map entries and seed ranges have length at
\* least 1, find_closest_seed_location_2 terminates and returns the minimum
\* of seed_to_location(s) over every seed s of every (start, len) seed
\* range: the range-based walk agrees with mapping each seed individually.
C28_RangeWalkIsMinimumOverSeeds ==
    ret # <<>> =>
        /\ ret[1].ok
        /\ IF SeedLocations(arg) = {} THEN ret[1].val = <<>>
           ELSE /\ ret[1].val # <<>>
                /\ ret[1].val[1] \in SeedLocations(arg)
                /\ \A location \in SeedLocations(arg) :
                      ret[1].val[1] <= location

\* C28 witness: both maps have entries, the first seed range has two seeds,
\* the first map moves its first seed, and the closest location returned
\* lies below the location of that first seed.
C28_Witness ==
    /\ ret # <<>>
    /\ ret[1].ok
    /\ Len(arg.seeds) >= 2
    /\ arg.seeds[2] = 2
    /\ arg.maps[1] # <<>>
    /\ arg.maps[2] # <<>>
    /\ map_value(arg.maps[1], arg.seeds[1]) # arg.seeds[1]
    /\ ret[1].val # <<>>
    /\ ret[1].val[1] < seed_to_location(arg, arg.seeds[1])

====
